---- MODULE Spec2Model ----
(***************************************************************************)
(* The batching/export core of spin-otel-component:                        *)
(*   internal/batching  Batcher[T]   (Add, Flush, Stop, exportLocked,      *)
(*                                    resetTimer and its timer callback)   *)
(*   internal/provider  Provider     (Initialize, ForceFlush, Shutdown,    *)
(*                                    exportLogs/exportTraces/exportMetrics)*)
(* Each goroutine is a thread with a program counter; one action is one    *)
(* step of a goroutine between two synchronisation points.                 *)
(***************************************************************************)
EXTENDS Integers, Sequences, FiniteSets, TLC

\* ------------------------------------------------------------------ bounds
\* Add calls made in one behaviour; the items are 1..MaxAdds in call order.
MaxAdds == 3
\* maxSize of the stand-alone Batcher is drawn from 1..MaxBatchSize.
MaxBatchSize == 2
\* Initialize calls that make batchers, where a provider is initialized again.
MaxInits == 2

\* ----------------------------------------------------------------- threads
\* The goroutines of a run.  Goroutines of one kind are interchangeable, so a
\* new call is always taken by the idle one with the lowest number.
NoOne == <<"none", 0>>
Producers == {<<"add", 1>>, <<"add", 2>>}
Flushers == {<<"flush", 1>>}
Stoppers == {<<"stop", 1>>}
Callbacks == {<<"timer", 1>>, <<"timer", 2>>}
BatcherThreads == Producers \cup Flushers \cup Stoppers \cup Callbacks

VARIABLES
    bat,        \* batcher id -> the Batcher struct
    pc,         \* thread -> position in the method it runs
    frame,      \* thread -> [op: the method, b: its receiver, arg: the item of Add]
    batch,      \* thread -> itemsToExport of exportLocked
    err,        \* thread -> err of exportLocked
    exported,   \* batcher id -> the arguments exportFunc was called with, in call order
    nAdds,      \* Add calls begun so far
    hist,       \* history of the run, read by the properties only
    obs,        \* what the Flush call in progress saw and did, read by the properties only
    prov,       \* the Provider struct
    ctl,        \* thread -> the Provider or Logger method it runs and where it is in it
    fan,        \* thread -> the range loop of exportLogs/exportTraces/exportMetrics
    heap        \* array id -> the array behind a slice (kept only where storage is followed)

vars == <<bat, pc, frame, batch, err, exported, nAdds, hist, obs, prov, ctl, fan, heap>>

\* ------------------------------------------------------------ the Batcher
resetTimer_KeepsOld(B) == [B EXCEPT !.timer = "armed", !.armed = @ + 1]

\* resetTimer: stop the timer the struct refers to (lines 103-105), arm a new
\* one (line 107).  timer is the state of the time.Timer that b.timer refers
\* to; armed counts the timers of this batcher that the runtime will still
\* fire.
resetTimer(B) ==
    LET old == IF B.timer = "armed"
               THEN [B EXCEPT !.timer = "stopped", !.armed = @ - 1] ELSE B
    IN  [old EXCEPT !.timer = "armed", !.armed = @ + 1]

\* NewBatcher: an empty, running batcher whose timer is armed.
NewBatcher(n, f) ==
    resetTimer([items |-> <<>>, maxSize |-> n, exportFunc |-> f,
                mu |-> NoOne, timer |-> "nil", armed |-> 0, stopped |-> FALSE])

\* Add, line 44: b.items = append(b.items, item)
AppendItem(B, x) == [B EXCEPT !.items = Append(@, x)]

BatchFull_Strict(B) == Len(B.items) > B.maxSize

\* Add, line 47: len(b.items) >= b.maxSize
BatchFull(B) == Len(B.items) >= B.maxSize

\* exportLocked, line 79: nothing to export
NothingPending(B) == Len(B.items) = 0

CopyOfItems_DropsLast(B) == [i \in 1 .. Len(B.items) - 1 |-> B.items[i]]

\* exportLocked, lines 84-85: the copy handed to exportFunc
CopyOfItems(B) == [i \in 1 .. Len(B.items) |-> B.items[i]]

ClearAndUnlock_KeepsItems(B) == [resetTimer(B) EXCEPT !.mu = NoOne]

ClearAndUnlock_KeepsLock(B) == resetTimer([B EXCEPT !.items = <<>>])

\* exportLocked, lines 88-94: clear the batch, reset the timer, unlock
ClearAndUnlock(B) == [resetTimer([B EXCEPT !.items = <<>>]) EXCEPT !.mu = NoOne]

\* Stop, lines 71-74: mark stopped, stop the timer
MarkStopped(B) ==
    [B EXCEPT !.stopped = TRUE,
              !.timer = IF B.timer = "armed" THEN "stopped" ELSE B.timer,
              !.armed = IF B.timer = "armed" THEN @ - 1 ELSE @]

\* What a method leaves behind when it gives up the lock or reaches its
\* return: the struct, where the goroutine is, and the batch it took.
Returning(B) == [b |-> B, at |-> "return", batch |-> <<>>]

\* exportLocked up to the call of exportFunc, lines 79-94 (lock held on entry)
exportLocked(B) ==
    IF NothingPending(B)
    THEN Returning(B)
    ELSE [b |-> ClearAndUnlock(B), at |-> "call", batch |-> CopyOfItems(B)]

Add_IgnoresStopped(B, x) ==
    IF BatchFull(AppendItem(B, x))
    THEN exportLocked(AppendItem(B, x))
    ELSE Returning(AppendItem(B, x))

\* Add, lines 40-51 (from the Lock to the return or to exportLocked's Unlock)
Add(B, x) ==
    IF B.stopped
    THEN Returning(B)
    ELSE IF BatchFull(AppendItem(B, x))
         THEN exportLocked(AppendItem(B, x))
         ELSE Returning(AppendItem(B, x))

Flush_IgnoresStopped(B) == exportLocked(B)

\* Flush, lines 59-63
Flush(B) == IF B.stopped THEN Returning(B) ELSE exportLocked(B)

\* Stop, lines 71-74
Stop(B) == Returning(MarkStopped(B))

\* the timer callback of resetTimer, lines 111-113
TimerCallback(B) == IF ~B.stopped THEN exportLocked(B) ELSE Returning(B)

\* ------------------------------------------------------- steps of a thread
Idle(t) == pc[t] = "idle"

\* t is the idle goroutine of its kind with the lowest number
FirstIdle(t, kind) ==
    /\ t \in kind
    /\ Idle(t)
    /\ \A u \in kind \cap DOMAIN pc : Idle(u) => u[2] >= t[2]

Self(t) == bat[frame[t].b]

Goto(t, l) == pc' = [pc EXCEPT ![t] = l]

SetSelf(t, B) == bat' = [bat EXCEPT ![frame[t].b] = B]

NoBatcher == <<"none", 0>>

TheBatcher == <<"b", 0>>

NoFrame == [op |-> "none", b |-> NoBatcher, arg |-> 0]

NoObs == [saw |-> <<>>, sawStopped |-> FALSE, called |-> <<>>]

\* nothing has happened yet
NoHist ==
    [onlyAdds |-> TRUE, tail |-> "open", stopCalled |-> FALSE, stopReturned |-> FALSE,
     dropped |-> {}, lost |-> {}, failed |-> {}, atShutdown |-> {}, flushed |-> {}]

AllIdle == \A t \in DOMAIN pc : Idle(t)

ItemsOf(q) == {q[i] : i \in 1 .. Len(q)}

\* ----------------------------------------------------------- the Provider
\* the three signals, each with its batcher field and its export method
Signals == {"logs", "traces", "metrics"}

\* types.ExportProtocol: the protocols Initialize's switch tells apart, and one
\* (OTLP/gRPC) standing for those that reach its default branch
Protocols == {"otlp-http", "otlp-grpc", "debug-stdout"}

\* the batcher Initialize creates for a signal
BatcherOf(sig) == <<sig, 1>>

ProviderBatchers == {BatcherOf(sig) : sig \in Signals}

\* the closure Initialize hands to NewBatcher for a signal
ExportFuncOf(sig) ==
    CASE sig = "logs" -> "exportLogs"
      [] sig = "traces" -> "exportTraces"
      [] sig = "metrics" -> "exportMetrics"

\* the signal an export method fans out
SignalOf(f) ==
    CASE f \in {"ExportLogs", "exportLogs"} -> "logs"
      [] f \in {"ExportTraces", "exportTraces"} -> "traces"
      [] f \in {"ExportMetrics", "exportMetrics"} -> "metrics"

\* a nil *Batcher: no items, no timer
NilBatcher ==
    [items |-> <<>>, maxSize |-> 0, exportFunc |-> "nil",
     mu |-> NoOne, timer |-> "nil", armed |-> 0, stopped |-> FALSE]

\* sync.RWMutex: the goroutine inside Lock() (writer), whether it has got the
\* lock (held) or still waits for the readers to leave, and the read locks out
FreeRWMutex == [writer |-> NoOne, held |-> FALSE, readers |-> 0]

\* RLock returns only while no goroutine is inside Lock()
CanRLock(P) == P.mu.writer = NoOne

RLock(P) == [P EXCEPT !.mu.readers = @ + 1]

RUnlock(P) == [P EXCEPT !.mu.readers = @ - 1]

\* Lock, first half: the writer announces itself, new readers are held back
LockAnnounce(P, t) == [P EXCEPT !.mu.writer = t]

\* Lock, second half: the readers have left
CanLock(P, t) == P.mu.writer = t /\ ~P.mu.held /\ P.mu.readers = 0

Lock(P) == [P EXCEPT !.mu.held = TRUE]

Unlock(P) == [P EXCEPT !.mu = FreeRWMutex]

NoConfig == [Protocol |-> "nil", BatchSize |-> 0, DevMode |-> FALSE]

\* p.exporters, a map from the protocol to the exporter registered for it;
\* the exporters made for a protocol are numbered as they are made
NoExporters == [e \in {} |-> 0]

\* p.exporters[protocol] = debug.NewDebugExporter(), line 53: a new exporter
\* takes the place of the one registered for the protocol, if any
Register(m, protocol) ==
    [e \in DOMAIN m \cup {protocol} |->
        IF e # protocol THEN m[e]
        ELSE IF protocol \in DOMAIN m THEN m[protocol] + 1 ELSE 1]

\* the batcher Initialize makes for a signal: the first is BatcherOf(sig),
\* each later one takes the next number
NewBatcherOf(P, sig) ==
    CASE sig = "logs" -> <<sig, P.logBatcher[2] + 1>>
      [] sig = "traces" -> <<sig, P.traceBatcher[2] + 1>>
      [] sig = "metrics" -> <<sig, P.metricBatcher[2] + 1>>

\* NewProvider: no config, an empty registry, no batchers, not shut down
NewProvider ==
    [config |-> NoConfig, exporters |-> NoExporters,
     logBatcher |-> NoBatcher, traceBatcher |-> NoBatcher, metricBatcher |-> NoBatcher,
     mu |-> FreeRWMutex, shutdown |-> FALSE]

\* the batcher field of a signal
BatcherField(P, sig) ==
    CASE sig = "logs" -> P.logBatcher
      [] sig = "traces" -> P.traceBatcher
      [] sig = "metrics" -> P.metricBatcher

Initialize_DefaultFallsThrough(P, config) ==
    IF P.shutdown
    THEN [p |-> P, res |-> "provider is shut down", created |-> FALSE]
    ELSE IF config.Protocol = "otlp-http"
         THEN [p |-> [P EXCEPT !.config = config],
               res |-> "OTLP HTTP exporter not yet implemented", created |-> FALSE]
         ELSE [p |-> [P EXCEPT !.config = config,
                               !.exporters = Register(@, "debug-stdout"),
                               !.logBatcher = NewBatcherOf(P, "logs"),
                               !.traceBatcher = NewBatcherOf(P, "traces"),
                               !.metricBatcher = NewBatcherOf(P, "metrics")],
               res |-> "nil", created |-> TRUE]

\* Initialize, lines 41-83 (lock held): the provider it leaves, what it
\* returns, and whether it got as far as creating the batchers
Initialize(P, config) ==
    IF P.shutdown
    THEN [p |-> P, res |-> "provider is shut down", created |-> FALSE]
    ELSE CASE config.Protocol = "otlp-http" ->
                [p |-> [P EXCEPT !.config = config],
                 res |-> "OTLP HTTP exporter not yet implemented", created |-> FALSE]
           [] config.Protocol = "debug-stdout" ->
                [p |-> [P EXCEPT !.config = config,
                                 !.exporters = Register(@, "debug-stdout"),
                                 !.logBatcher = NewBatcherOf(P, "logs"),
                                 !.traceBatcher = NewBatcherOf(P, "traces"),
                                 !.metricBatcher = NewBatcherOf(P, "metrics")],
                 res |-> "nil", created |-> TRUE]
           [] OTHER ->
                [p |-> [P EXCEPT !.config = config],
                 res |-> "unsupported protocol", created |-> FALSE]

Create_IgnoresShutdown(P) == [handle |-> TRUE, res |-> "nil"]

\* CreateLogger/CreateTracer/CreateMeter, lines 91-95 (read lock held): no
\* handle and an error on a provider that is shut down, a handle otherwise
Create(P) ==
    IF P.shutdown
    THEN [handle |-> FALSE, res |-> "provider is shut down"]
    ELSE [handle |-> TRUE, res |-> "nil"]

\* What an exporter may return for a batch of a signal.  The debug exporter's
\* ExportLogs always returns nil, its ExportTraces and ExportMetrics return
\* the marshalling error if there is one; any other exporter may fail.
ExporterResults(e, sig) ==
    IF e = "debug-stdout" /\ sig = "logs" THEN {"nil"} ELSE {"nil", "error"}

Remaining_StopsOnError(todo, e, r) == IF r = "error" THEN {} ELSE todo \ {e}

\* exportLogs/exportTraces/exportMetrics, the range loop: after exporter e
\* returned r the loop goes on with the exporters not yet visited
Remaining(todo, e, r) == todo \ {e}

NoFan == [todo |-> {}, done |-> <<>>]

FanResult_FirstError(done) ==
    IF \E i \in 1 .. Len(done) : done[i].res = "error" THEN "error" ELSE "nil"

\* exportLogs/exportTraces/exportMetrics, lines 241, 258, 275: return nil
FanResult(done) == "nil"

\* the method a goroutine runs on the provider (or Logger.Emit), where it is
\* in it, the batcher and item Emit works with, and, once it is about to
\* return, the error and (for the Create methods) the handle it returns
NoCall ==
    [op |-> "none", at |-> "none", b |-> NoBatcher, arg |-> 0,
     res |-> "none", handle |-> FALSE]

\* the order in which ForceFlush flushes and Shutdown stops the batchers
NextAt(at) ==
    CASE at = "flush_logs" -> "flush_traces"
      [] at = "flush_traces" -> "flush_metrics"
      [] at = "flush_metrics" -> "flush_done"
      [] at = "stop_logs" -> "stop_traces"
      [] at = "stop_traces" -> "stop_metrics"
      [] at = "stop_metrics" -> "stop_done"

FlushSteps == {"flush_logs", "flush_traces", "flush_metrics"}

StopSteps == {"stop_logs", "stop_traces", "stop_metrics"}

\* the signal whose batcher a step of ForceFlush or Shutdown works on
SignalAt(at) ==
    CASE at \in {"flush_logs", "stop_logs"} -> "logs"
      [] at \in {"flush_traces", "stop_traces"} -> "traces"
      [] at \in {"flush_metrics", "stop_metrics"} -> "metrics"

\* Where the calling method goes on when the batcher method it called returns
\* r: Emit returns what Add returned (Logger.Emit line 173), ForceFlush gives
\* up on a Flush error (lines 175-190), Shutdown ignores what Stop returns.
AfterCall(c, r) ==
    CASE c.op = "none" -> c
      [] c.at = "add" -> [c EXCEPT !.at = "returned", !.res = r]
      [] c.at \in FlushSteps ->
            [c EXCEPT !.at = IF r = "error" THEN "flush_failed" ELSE NextAt(c.at)]
      [] c.at \in StopSteps -> [c EXCEPT !.at = NextAt(c.at)]

\* Thread t takes b.mu (b.mu.Lock() at the head of every method) and runs the
\* method up to the point `after` describes.
RunLocked(t, b, m, x, after) ==
    /\ bat[b].mu = NoOne
    /\ bat' = [bat EXCEPT ![b] = after.b]
    /\ pc' = [pc EXCEPT ![t] = after.at]
    /\ frame' = [frame EXCEPT ![t] = [op |-> m, b |-> b, arg |-> x]]
    /\ batch' = [batch EXCEPT ![t] = after.batch]

\* a producer goroutine runs b.Add(item)
CallAdd(t) ==
    /\ FirstIdle(t, Producers)
    /\ nAdds < MaxAdds
    /\ \E b \in DOMAIN bat :
          /\ RunLocked(t, b, "Add", nAdds + 1, Add([bat[b] EXCEPT !.mu = t], nAdds + 1))
          /\ hist' = [hist EXCEPT
                !.tail = "open",
                !.onlyAdds = @ /\ AllIdle,
                !.dropped = IF bat[b].stopped THEN @ \cup {nAdds + 1} ELSE @]
    /\ nAdds' = nAdds + 1
    /\ UNCHANGED <<err, exported, obs, prov, ctl, fan, heap>>

\* a goroutine runs b.Flush()
CallFlush(t) ==
    /\ FirstIdle(t, Flushers)
    /\ \E b \in DOMAIN bat :
          /\ RunLocked(t, b, "Flush", 0, Flush([bat[b] EXCEPT !.mu = t]))
          /\ obs' = [saw |-> bat[b].items, sawStopped |-> bat[b].stopped, called |-> <<>>]
    /\ hist' = [hist EXCEPT
          !.onlyAdds = FALSE,
          !.tail = IF @ = "open" /\ (\A p \in Producers : Idle(p)) /\ ~hist.stopCalled
                   THEN "flushing" ELSE @]
    /\ UNCHANGED <<err, exported, nAdds, prov, ctl, fan, heap>>

\* a goroutine runs b.Stop()
CallStop(t) ==
    /\ FirstIdle(t, Stoppers)
    /\ \E b \in DOMAIN bat :
          /\ RunLocked(t, b, "Stop", 0, Stop([bat[b] EXCEPT !.mu = t]))
          /\ hist' = [hist EXCEPT
                !.onlyAdds = FALSE,
                !.stopCalled = TRUE,
                !.lost = IF bat[b].stopped THEN @ ELSE ItemsOf(bat[b].items)]
    /\ UNCHANGED <<err, exported, nAdds, obs, prov, ctl, fan, heap>>

\* resetTimer, line 107: the armed timer fires and starts its callback goroutine
TimerFire(t) ==
    /\ FirstIdle(t, Callbacks)
    /\ \E b \in DOMAIN bat :
          /\ bat[b].armed > 0
          /\ bat' = [bat EXCEPT ![b].timer = "fired", ![b].armed = @ - 1]
          /\ frame' = [frame EXCEPT ![t] = [op |-> "Timer", b |-> b, arg |-> 0]]
    /\ Goto(t, "fired")
    /\ hist' = [hist EXCEPT !.onlyAdds = FALSE]
    /\ UNCHANGED <<batch, err, exported, nAdds, obs, prov, ctl, fan, heap>>

\* resetTimer, lines 108-113: the fired callback takes the lock and runs
TimerRun(t) ==
    /\ pc[t] = "fired"
    /\ RunLocked(t, frame[t].b, "Timer", 0, TimerCallback([Self(t) EXCEPT !.mu = t]))
    /\ UNCHANGED <<err, exported, nAdds, hist, obs, prov, ctl, fan, heap>>

\* exportLocked, line 95: exportFunc is called with the copy, no lock held
Invoke(t) ==
    /\ pc[t] = "call"
    /\ exported' = [exported EXCEPT ![frame[t].b] = Append(@, batch[t])]
    /\ obs' = IF frame[t].op = "Flush" THEN [obs EXCEPT !.called = Append(@, batch[t])] ELSE obs
    /\ Goto(t, IF Self(t).exportFunc = "callback" THEN "incall" ELSE "fanout")
    /\ UNCHANGED <<bat, frame, batch, err, nAdds, hist, prov, ctl, fan, heap>>

\* exportLocked, line 95: a caller-supplied exportFunc returns nil or an error
CallbackReturn(t) ==
    /\ pc[t] = "incall"
    /\ \E e \in {"nil", "error"} :
          /\ err' = [err EXCEPT ![t] = e]
          /\ hist' = [hist EXCEPT !.failed = IF e = "error" THEN @ \cup ItemsOf(batch[t]) ELSE @]
    /\ Goto(t, "relock")
    /\ UNCHANGED <<bat, frame, batch, exported, nAdds, obs, prov, ctl, fan, heap>>

\* exportLocked, lines 96-98: b.mu.Lock() after the export, return err
Relock(t) ==
    /\ pc[t] = "relock"
    /\ Self(t).mu = NoOne
    /\ SetSelf(t, [Self(t) EXCEPT !.mu = t])
    /\ Goto(t, "return")
    /\ UNCHANGED <<frame, batch, err, exported, nAdds, hist, obs, prov, ctl, fan, heap>>

Result_Swallowed(t) == IF frame[t].op \in {"Add", "Flush"} THEN "nil" ELSE "none"

\* What the method hands back: Add and Flush return exportLocked's err (lines
\* 48, 63), the timer callback discards it (line 112), Stop returns nothing.
Result(t) == IF frame[t].op \in {"Add", "Flush"} THEN err[t] ELSE "none"

\* The deferred b.mu.Unlock() runs and the method returns to its caller.
Return(t) ==
    /\ pc[t] = "return"
    /\ SetSelf(t, [Self(t) EXCEPT !.mu = NoOne])
    /\ Goto(t, "idle")
    /\ frame' = [frame EXCEPT ![t] = NoFrame]
    /\ batch' = [batch EXCEPT ![t] = <<>>]
    /\ err' = [err EXCEPT ![t] = "nil"]
    /\ obs' = IF frame[t].op = "Flush" THEN NoObs ELSE obs
    /\ hist' = [hist EXCEPT
          !.stopReturned = @ \/ frame[t].op = "Stop",
          !.tail = IF frame[t].op = "Flush" /\ @ = "flushing" THEN "flushed" ELSE @]
    /\ ctl' = [ctl EXCEPT ![t] = AfterCall(@, Result(t))]
    /\ fan' = [fan EXCEPT ![t] = NoFan]
    /\ UNCHANGED <<exported, nAdds, prov, heap>>

\* ------------------------------------------------ the stand-alone Batcher
Init ==
    /\ \E n \in 1 .. MaxBatchSize : bat = [b \in {TheBatcher} |-> NewBatcher(n, "callback")]
    /\ pc = [t \in BatcherThreads |-> "idle"]
    /\ frame = [t \in BatcherThreads |-> NoFrame]
    /\ batch = [t \in BatcherThreads |-> <<>>]
    /\ err = [t \in BatcherThreads |-> "nil"]
    /\ exported = [b \in {TheBatcher} |-> <<>>]
    /\ nAdds = 0
    /\ hist = NoHist
    /\ obs = NoObs
    /\ prov = NewProvider
    /\ ctl = [t \in BatcherThreads |-> NoCall]
    /\ fan = [t \in BatcherThreads |-> NoFan]
    /\ heap = <<>>

Next ==
    \E t \in BatcherThreads :
        \/ CallAdd(t)
        \/ CallFlush(t)
        \/ CallStop(t)
        \/ TimerFire(t)
        \/ TimerRun(t)
        \/ Invoke(t)
        \/ CallbackReturn(t)
        \/ Relock(t)
        \/ Return(t)

Spec == Init /\ [][Next]_vars

\* ------------------------------------------------------------ the fan-out
\* the signal of the batch a goroutine fans out
FanSignal(t) ==
    IF frame[t].b = NoBatcher THEN SignalOf(frame[t].op) ELSE SignalOf(Self(t).exportFunc)

\* the goroutines that call ExportLogs/ExportTraces/ExportMetrics themselves
Exporting == {<<"export", 1>>, <<"export", 2>>}

\* ExportLogs/ExportTraces/ExportMetrics, lines 151-163: a caller hands a
\* batch of its own to the provider
CallExport(t) ==
    /\ FirstIdle(t, Exporting)
    /\ \E f \in {"ExportLogs", "ExportTraces", "ExportMetrics"}, n \in 1 .. MaxBatchSize :
          /\ nAdds + n <= MaxAdds
          /\ frame' = [frame EXCEPT ![t] = [op |-> f, b |-> NoBatcher, arg |-> 0]]
          /\ batch' = [batch EXCEPT ![t] = [i \in 1 .. n |-> nAdds + i]]
          /\ nAdds' = nAdds + n
    /\ Goto(t, "fanout")
    /\ UNCHANGED <<bat, err, exported, hist, obs, prov, ctl, fan, heap>>

\* exportLogs/exportTraces/exportMetrics, p.mu.RLock() and the start of the
\* range over p.exporters
FanRLock(t) ==
    /\ pc[t] = "fanout"
    /\ CanRLock(prov)
    /\ prov' = RLock(prov)
    /\ fan' = [fan EXCEPT ![t] = [todo |-> DOMAIN prov.exporters, done |-> <<>>]]
    /\ Goto(t, "range")
    /\ UNCHANGED <<bat, frame, batch, err, exported, nAdds, hist, obs, ctl, heap>>

\* one iteration of the range loop: some exporter not yet visited (a Go map
\* is ranged over in any order) is called with the batch; its error is
\* printed in DevMode and otherwise dropped
FanDeliver(t) ==
    /\ pc[t] = "range"
    /\ \E e \in fan[t].todo : \E r \in ExporterResults(e, FanSignal(t)) :
          fan' = [fan EXCEPT ![t] =
                    [todo |-> Remaining(@.todo, e, r),
                     done |-> Append(@.done,
                                [exp |-> e, arg |-> batch[t], res |-> r,
                                 printed |-> r = "error" /\ prov.config.DevMode])]]
    /\ UNCHANGED <<bat, pc, frame, batch, err, exported, nAdds, hist, obs, prov, ctl, heap>>

\* the loop is over: the deferred RUnlock runs and nil is returned, to the
\* caller of Export* or into exportLocked (line 95)
FanDone(t) ==
    /\ pc[t] = "range"
    /\ fan[t].todo = {}
    /\ prov' = RUnlock(prov)
    /\ err' = [err EXCEPT ![t] = FanResult(fan[t].done)]
    /\ IF frame[t].b = NoBatcher
       THEN /\ Goto(t, "idle")
            /\ frame' = [frame EXCEPT ![t] = NoFrame]
            /\ batch' = [batch EXCEPT ![t] = <<>>]
            /\ fan' = [fan EXCEPT ![t] = NoFan]
       ELSE /\ Goto(t, "relock")
            /\ UNCHANGED <<frame, batch, fan>>
    /\ UNCHANGED <<bat, exported, nAdds, hist, obs, ctl, heap>>

\* A provider whose registry holds any of the exporters, used through its
\* Export* methods.
FanInit ==
    /\ \E reg \in SUBSET Protocols, dev \in BOOLEAN :
          prov = [NewProvider EXCEPT
                    !.config = [Protocol |-> "debug-stdout", BatchSize |-> 1, DevMode |-> dev],
                    !.exporters = [e \in reg |-> 1]]
    /\ bat = [b \in ProviderBatchers |-> NilBatcher]
    /\ exported = [b \in ProviderBatchers |-> <<>>]
    /\ pc = [t \in Exporting |-> "idle"]
    /\ frame = [t \in Exporting |-> NoFrame]
    /\ batch = [t \in Exporting |-> <<>>]
    /\ err = [t \in Exporting |-> "nil"]
    /\ ctl = [t \in Exporting |-> NoCall]
    /\ fan = [t \in Exporting |-> NoFan]
    /\ heap = <<>>
    /\ nAdds = 0
    /\ hist = NoHist
    /\ obs = NoObs

FanNext ==
    \E t \in Exporting :
        \/ CallExport(t)
        \/ FanRLock(t)
        \/ FanDeliver(t)
        \/ FanDone(t)

FanSpec == FanInit /\ [][FanNext]_vars

\* -------------------------------------------------- the Provider's methods
\* the goroutines of a component that uses the provider
Initializers == {<<"init", 1>>}

Loggers == {<<"emit", 1>>}

ForceFlushers == {<<"forceflush", 1>>}

Shutdowners == {<<"shutdown", 1>>}

\* the goroutine of a timer callback
ProviderCallbacks == {<<"timer", 1>>}

ProviderThreads ==
    Initializers \cup Loggers \cup ForceFlushers \cup Shutdowners \cup ProviderCallbacks

\* t runs no method of the provider
Outside(t) == ctl[t].op = "none"

At(t, l) == ctl' = [ctl EXCEPT ![t].at = l]

Leave(t) == ctl' = [ctl EXCEPT ![t] = NoCall]

\* t panics and nothing recovers: the process is gone, and every goroutine
\* with it
Panic(t) ==
    /\ ctl' = [u \in DOMAIN ctl |->
                 IF u = t THEN [ctl[t] EXCEPT !.at = "panic"]
                 ELSE [NoCall EXCEPT !.at = "dead"]]
    /\ pc' = [u \in DOMAIN pc |-> "dead"]

\* the items pending in the provider's batchers
Pending == UNION {ItemsOf(bat[b].items) : b \in ProviderBatchers}

\* Initialize, line 38: p.mu.Lock() is entered.  A provider that has its
\* batchers is initialized again only where the specification keeps room for
\* the batchers it would make (the component initializes a provider once,
\* part_003, lines 33-61), or when it is shut down.
CallInitialize(t) ==
    /\ FirstIdle(t, Initializers)
    /\ Outside(t)
    /\ NewBatcherOf(prov, "logs") \in DOMAIN bat \/ prov.shutdown
    /\ prov.mu.writer = NoOne
    /\ prov' = LockAnnounce(prov, t)
    /\ ctl' = [ctl EXCEPT ![t] = [NoCall EXCEPT !.op = "Initialize", !.at = "lock"]]
    /\ UNCHANGED <<bat, pc, frame, batch, err, exported, nAdds, hist, obs, fan, heap>>

\* Initialize, lines 38-83: the lock is granted, the body runs, the deferred
\* Unlock runs
InitializeLocked(t) ==
    /\ ctl[t].op = "Initialize"
    /\ CanLock(prov, t)
    /\ \E proto \in Protocols, n \in 1 .. MaxBatchSize, dev \in BOOLEAN :
          LET config == [Protocol |-> proto, BatchSize |-> n, DevMode |-> dev]
              r == Initialize(Lock(prov), config)
          IN  /\ prov' = Unlock(r.p)
              /\ bat' = IF r.created
                        THEN [b \in DOMAIN bat |->
                                IF b \in {BatcherField(r.p, sig) : sig \in Signals}
                                THEN NewBatcher(config.BatchSize, ExportFuncOf(b[1]))
                                ELSE bat[b]]
                        ELSE bat
              /\ ctl' = [ctl EXCEPT ![t] = [@ EXCEPT !.at = "returned", !.res = r.res]]
    /\ UNCHANGED <<pc, frame, batch, err, exported, nAdds, hist, obs, fan, heap>>

\* CreateLogger/CreateTracer/CreateMeter, lines 87-120: the read lock is
\* taken, the shutdown flag decides, the deferred RUnlock runs.  The
\* goroutine that sets the provider up is the one that asks it for handles.
CallCreate(t) ==
    /\ FirstIdle(t, Initializers)
    /\ Outside(t)
    /\ CanRLock(prov)
    /\ \E f \in {"CreateLogger", "CreateTracer", "CreateMeter"} :
          ctl' = [ctl EXCEPT ![t] =
                    [NoCall EXCEPT !.op = f, !.at = "returned",
                                   !.res = Create(RLock(prov)).res,
                                   !.handle = Create(RLock(prov)).handle]]
    /\ prov' = RUnlock(RLock(prov))
    /\ UNCHANGED <<bat, pc, frame, batch, err, exported, nAdds, hist, obs, fan, heap>>

\* Logger.Emit, lines 114-172: GetConfig and GetLogBatcher read the provider
\* under its read lock.
CallEmit(t) ==
    /\ FirstIdle(t, Loggers)
    /\ Outside(t)
    /\ nAdds < MaxAdds
    /\ CanRLock(prov)
    /\ ctl' = [ctl EXCEPT ![t] =
                 [NoCall EXCEPT !.op = "Emit", !.at = "add",
                                !.b = prov.logBatcher, !.arg = nAdds + 1]]
    /\ nAdds' = nAdds + 1
    /\ UNCHANGED <<bat, pc, frame, batch, err, exported, hist, obs, prov, fan, heap>>

\* GetLogBatcher/GetTraceBatcher/GetMetricBatcher, lines 130-148: a producer
\* of some signal reads the batcher of its signal under the read lock, to
\* add an item to it
CallGetBatcher(t) ==
    /\ FirstIdle(t, Producers)
    /\ Outside(t)
    /\ nAdds < MaxAdds
    /\ CanRLock(prov)
    /\ \E sig \in Signals :
          ctl' = [ctl EXCEPT ![t] =
                    [NoCall EXCEPT !.op = "Add", !.at = "add",
                                   !.b = BatcherField(prov, sig), !.arg = nAdds + 1]]
    /\ nAdds' = nAdds + 1
    /\ UNCHANGED <<bat, pc, frame, batch, err, exported, hist, obs, prov, fan, heap>>

\* a goroutine calls ForceFlush
CallForceFlush(t) ==
    /\ FirstIdle(t, ForceFlushers)
    /\ Outside(t)
    /\ ctl' = [ctl EXCEPT ![t] = [NoCall EXCEPT !.op = "ForceFlush", !.at = "rlock"]]
    /\ UNCHANGED <<bat, pc, frame, batch, err, exported, nAdds, hist, obs, prov, fan, heap>>

\* Shutdown, line 198: p.mu.Lock() is entered
CallShutdown(t) ==
    /\ FirstIdle(t, Shutdowners)
    /\ Outside(t)
    /\ prov.mu.writer = NoOne
    /\ prov' = LockAnnounce(prov, t)
    /\ ctl' = [ctl EXCEPT ![t] = [NoCall EXCEPT !.op = "Shutdown", !.at = "lock"]]
    /\ UNCHANGED <<bat, pc, frame, batch, err, exported, nAdds, hist, obs, fan, heap>>

\* Shutdown, lines 198-206: the lock is granted; a provider already shut down
\* is left alone, otherwise ForceFlush is called with the lock held
ShutdownLocked(t) ==
    /\ ctl[t].op = "Shutdown"
    /\ ctl[t].at = "lock"
    /\ CanLock(prov, t)
    /\ IF prov.shutdown
       THEN /\ prov' = Unlock(Lock(prov))
            /\ Leave(t)
            /\ UNCHANGED hist
       ELSE /\ prov' = Lock(prov)
            /\ At(t, "rlock")
            /\ hist' = [hist EXCEPT !.atShutdown = Pending]
    /\ UNCHANGED <<bat, pc, frame, batch, err, exported, nAdds, obs, fan, heap>>

\* ForceFlush, lines 167-172: p.mu.RLock() and the shutdown check
ForceFlushEnter(t) ==
    /\ ctl[t].at = "rlock"
    /\ CanRLock(prov)
    /\ prov' = RLock(prov)
    /\ At(t, IF prov.shutdown THEN "flush_failed" ELSE "flush_logs")
    /\ UNCHANGED <<bat, pc, frame, batch, err, exported, nAdds, hist, obs, fan, heap>>

\* The method calls the next batcher method: Emit calls Add (Logger.Emit line
\* 173), ForceFlush calls Flush on the batchers that exist (lines 175-191),
\* Shutdown calls Stop on them (lines 211-221).  GetLogBatcher returns its
\* *Batcher as a LogBatcher interface, which is never nil: on a provider
\* without batchers Emit's nil check passes, Add runs on a nil receiver and
\* b.mu.Lock() panics.
CallBatcher(t) ==
    /\ Idle(t)
    /\ ctl[t].at \in {"add"} \cup FlushSteps \cup StopSteps
    /\ LET b == IF ctl[t].at = "add" THEN ctl[t].b
                ELSE BatcherField(prov, SignalAt(ctl[t].at))
       IN  IF b = NoBatcher
           THEN /\ IF ctl[t].at = "add" THEN Panic(t)
                   ELSE At(t, NextAt(ctl[t].at)) /\ UNCHANGED pc
                /\ UNCHANGED <<bat, frame, batch>>
           ELSE /\ CASE ctl[t].at = "add" ->
                          RunLocked(t, b, "Add", ctl[t].arg,
                                    Add([bat[b] EXCEPT !.mu = t], ctl[t].arg))
                     [] ctl[t].at \in FlushSteps ->
                          RunLocked(t, b, "Flush", 0, Flush([bat[b] EXCEPT !.mu = t]))
                     [] ctl[t].at \in StopSteps ->
                          RunLocked(t, b, "Stop", 0, Stop([bat[b] EXCEPT !.mu = t]))
                /\ UNCHANGED ctl
    /\ hist' = IF /\ ctl[t].op = "ForceFlush" /\ ctl[t].at \in FlushSteps
                  /\ BatcherField(prov, SignalAt(ctl[t].at)) # NoBatcher
               THEN [hist EXCEPT !.flushed = @ \cup {SignalAt(ctl[t].at)}]
               ELSE hist
    /\ UNCHANGED <<err, exported, nAdds, obs, prov, fan, heap>>

\* Initialize, a Create method or Emit returns to its caller.
\* ForceFlush returns (its deferred RUnlock runs): to its caller, or into
\* Shutdown, which gives up on an error (lines 206-208) and otherwise goes
\* on to stop the batchers.  Shutdown returns (lines 223-224): shutdown is
\* set and the deferred Unlock runs.
ProviderReturn(t) ==
    /\ Idle(t)
    /\ ctl[t].at \in {"flush_done", "flush_failed", "stop_done", "returned"}
    /\ CASE ctl[t].at = "returned" ->
              /\ prov' = prov
              /\ Leave(t)
         [] ctl[t].at = "flush_done" ->
              /\ prov' = RUnlock(prov)
              /\ IF ctl[t].op = "Shutdown" THEN At(t, "stop_logs") ELSE Leave(t)
         [] ctl[t].at = "flush_failed" ->
              /\ prov' = IF ctl[t].op = "Shutdown" THEN Unlock(RUnlock(prov))
                         ELSE RUnlock(prov)
              /\ Leave(t)
         [] ctl[t].at = "stop_done" ->
              /\ prov' = Unlock([prov EXCEPT !.shutdown = TRUE])
              /\ Leave(t)
    /\ hist' = IF ctl[t].op = "ForceFlush" THEN [hist EXCEPT !.flushed = {}] ELSE hist
    /\ UNCHANGED <<bat, pc, frame, batch, err, exported, nAdds, obs, fan, heap>>

\* the state NewProvider leaves
ProviderInit ==
    /\ prov = NewProvider
    /\ bat = [b \in ProviderBatchers |-> NilBatcher]
    /\ exported = [b \in ProviderBatchers |-> <<>>]
    /\ pc = [t \in ProviderThreads |-> "idle"]
    /\ frame = [t \in ProviderThreads |-> NoFrame]
    /\ batch = [t \in ProviderThreads |-> <<>>]
    /\ err = [t \in ProviderThreads |-> "nil"]
    /\ ctl = [t \in ProviderThreads |-> NoCall]
    /\ fan = [t \in ProviderThreads |-> NoFan]
    /\ heap = <<>>
    /\ nAdds = 0
    /\ hist = NoHist
    /\ obs = NoObs

ProviderStep(t) ==
    \/ CallInitialize(t)
    \/ InitializeLocked(t)
    \/ CallEmit(t)
    \/ CallForceFlush(t)
    \/ CallShutdown(t)
    \/ ShutdownLocked(t)
    \/ ForceFlushEnter(t)
    \/ CallBatcher(t)
    \/ ProviderReturn(t)
    \/ TimerFire(t)
    \/ TimerRun(t)
    \/ Invoke(t)
    \/ FanRLock(t)
    \/ FanDeliver(t)
    \/ FanDone(t)
    \/ Relock(t)
    \/ Return(t)

ProviderNext == \E t \in ProviderThreads : ProviderStep(t)

\* The Go scheduler runs every goroutine that can take a step.
ProviderSpec ==
    /\ ProviderInit
    /\ [][ProviderNext]_vars
    /\ \A t \in ProviderThreads : WF_vars(ProviderStep(t))

\* ------------------------------------------- the provider in any state
\* the goroutine that calls the Export methods
LifecycleExporting == {<<"export", 1>>}

LifecycleThreads == Initializers \cup ForceFlushers \cup LifecycleExporting

\* the provider Initialize leaves when it succeeds on a new one
Initialized(n, dev) ==
    Initialize(NewProvider, [Protocol |-> "debug-stdout", BatchSize |-> n, DevMode |-> dev]).p

\* A provider as NewProvider or a successful Initialize left it, with its
\* shutdown flag clear or set (and then its batchers stopped), used through
\* Initialize, the Create methods, ForceFlush and the Export methods.
LifecycleInit ==
    /\ \E init, sd, dev \in BOOLEAN :
          /\ prov = [(IF init THEN Initialized(1, dev) ELSE NewProvider)
                        EXCEPT !.shutdown = sd]
          /\ bat = [b \in ProviderBatchers |->
                      IF ~init THEN NilBatcher
                      ELSE IF sd THEN MarkStopped(NewBatcher(1, ExportFuncOf(b[1])))
                      ELSE NewBatcher(1, ExportFuncOf(b[1]))]
    /\ exported = [b \in ProviderBatchers |-> <<>>]
    /\ pc = [t \in LifecycleThreads |-> "idle"]
    /\ frame = [t \in LifecycleThreads |-> NoFrame]
    /\ batch = [t \in LifecycleThreads |-> <<>>]
    /\ err = [t \in LifecycleThreads |-> "nil"]
    /\ ctl = [t \in LifecycleThreads |-> NoCall]
    /\ fan = [t \in LifecycleThreads |-> NoFan]
    /\ heap = <<>>
    /\ nAdds = 0
    /\ hist = NoHist
    /\ obs = NoObs

LifecycleNext ==
    \E t \in LifecycleThreads :
        \/ CallInitialize(t)
        \/ InitializeLocked(t)
        \/ CallCreate(t)
        \/ CallForceFlush(t)
        \/ ForceFlushEnter(t)
        \/ CallBatcher(t)
        \/ Return(t)
        \/ ProviderReturn(t)
        \/ CallExport(t)
        \/ FanRLock(t)
        \/ FanDeliver(t)
        \/ FanDone(t)

LifecycleSpec == LifecycleInit /\ [][LifecycleNext]_vars

\* ------------------------------- ForceFlush over batchers that can fail
FlushThreads == Loggers \cup ForceFlushers \cup ProviderCallbacks

\* An initialized provider whose batchers hand their batches to an export
\* function that can fail, as a Batcher's exportFunc may (part_007, line 95).
FlushInit ==
    /\ \E n \in 1 .. MaxBatchSize :
          /\ prov = Initialized(n, FALSE)
          /\ bat = [b \in ProviderBatchers |-> NewBatcher(n, "callback")]
    /\ exported = [b \in ProviderBatchers |-> <<>>]
    /\ pc = [t \in FlushThreads |-> "idle"]
    /\ frame = [t \in FlushThreads |-> NoFrame]
    /\ batch = [t \in FlushThreads |-> <<>>]
    /\ err = [t \in FlushThreads |-> "nil"]
    /\ ctl = [t \in FlushThreads |-> NoCall]
    /\ fan = [t \in FlushThreads |-> NoFan]
    /\ heap = <<>>
    /\ nAdds = 0
    /\ hist = NoHist
    /\ obs = NoObs

FlushNext ==
    \E t \in FlushThreads :
        \/ CallEmit(t)
        \/ CallForceFlush(t)
        \/ ForceFlushEnter(t)
        \/ CallBatcher(t)
        \/ ProviderReturn(t)
        \/ TimerFire(t)
        \/ TimerRun(t)
        \/ Invoke(t)
        \/ CallbackReturn(t)
        \/ Relock(t)
        \/ Return(t)

FlushSpec == FlushInit /\ [][FlushNext]_vars

\* ------------------------------------ the provider as the component uses it
WiredProducers == {<<"add", 1>>}

WiredThreads == WiredProducers \cup ForceFlushers

\* The provider as the component's constructor leaves it (part_003, lines
\* 33-61): initialized for debug-stdout, its three batchers wired to the
\* fan-out; producers add to the batchers and ForceFlush flushes them.
WiredInit ==
    /\ \E n \in 1 .. MaxBatchSize :
          /\ prov = Initialized(n, TRUE)
          /\ bat = [b \in ProviderBatchers |-> NewBatcher(n, ExportFuncOf(b[1]))]
    /\ exported = [b \in ProviderBatchers |-> <<>>]
    /\ pc = [t \in WiredThreads |-> "idle"]
    /\ frame = [t \in WiredThreads |-> NoFrame]
    /\ batch = [t \in WiredThreads |-> <<>>]
    /\ err = [t \in WiredThreads |-> "nil"]
    /\ ctl = [t \in WiredThreads |-> NoCall]
    /\ fan = [t \in WiredThreads |-> NoFan]
    /\ heap = <<>>
    /\ nAdds = 0
    /\ hist = NoHist
    /\ obs = NoObs

WiredNext ==
    \E t \in WiredThreads :
        \/ CallGetBatcher(t)
        \/ CallForceFlush(t)
        \/ ForceFlushEnter(t)
        \/ CallBatcher(t)
        \/ ProviderReturn(t)
        \/ Invoke(t)
        \/ FanRLock(t)
        \/ FanDeliver(t)
        \/ FanDone(t)
        \/ Relock(t)
        \/ Return(t)

WiredSpec == WiredInit /\ [][WiredNext]_vars

\* ------------------------------------------- the provider initialized again
\* the batchers that MaxInits successful Initialize calls make
AllBatchers == {<<sig, g>> : sig \in Signals, g \in 1 .. MaxInits}

ReinitThreads == Initializers \cup Loggers \cup ProviderCallbacks

\* A new provider that is initialized, used and initialized again.
ReinitInit ==
    /\ prov = NewProvider
    /\ bat = [b \in AllBatchers |-> NilBatcher]
    /\ exported = [b \in AllBatchers |-> <<>>]
    /\ pc = [t \in ReinitThreads |-> "idle"]
    /\ frame = [t \in ReinitThreads |-> NoFrame]
    /\ batch = [t \in ReinitThreads |-> <<>>]
    /\ err = [t \in ReinitThreads |-> "nil"]
    /\ ctl = [t \in ReinitThreads |-> NoCall]
    /\ fan = [t \in ReinitThreads |-> NoFan]
    /\ heap = <<>>
    /\ nAdds = 0
    /\ hist = NoHist
    /\ obs = NoObs

ReinitNext ==
    \E t \in ReinitThreads :
        \/ CallInitialize(t)
        \/ InitializeLocked(t)
        \/ CallEmit(t)
        \/ CallBatcher(t)
        \/ ProviderReturn(t)
        \/ TimerFire(t)
        \/ TimerRun(t)
        \/ Invoke(t)
        \/ FanRLock(t)
        \/ FanDeliver(t)
        \/ FanDone(t)
        \/ Relock(t)
        \/ Return(t)

ReinitSpec == ReinitInit /\ [][ReinitNext]_vars

\* ------------------------------------------- the three pipelines side by side
SignalsThreads == Producers \cup ForceFlushers \cup Shutdowners

\* The initialized provider with producers of all three signals, a
\* ForceFlush and a Shutdown side by side.
SignalsInit ==
    /\ \E n \in 1 .. MaxBatchSize :
          /\ prov = Initialized(n, FALSE)
          /\ bat = [b \in ProviderBatchers |-> NewBatcher(n, ExportFuncOf(b[1]))]
    /\ exported = [b \in ProviderBatchers |-> <<>>]
    /\ pc = [t \in SignalsThreads |-> "idle"]
    /\ frame = [t \in SignalsThreads |-> NoFrame]
    /\ batch = [t \in SignalsThreads |-> <<>>]
    /\ err = [t \in SignalsThreads |-> "nil"]
    /\ ctl = [t \in SignalsThreads |-> NoCall]
    /\ fan = [t \in SignalsThreads |-> NoFan]
    /\ heap = <<>>
    /\ nAdds = 0
    /\ hist = NoHist
    /\ obs = NoObs

SignalsNext ==
    \E t \in SignalsThreads :
        \/ CallGetBatcher(t)
        \/ CallForceFlush(t)
        \/ CallShutdown(t)
        \/ ShutdownLocked(t)
        \/ ForceFlushEnter(t)
        \/ CallBatcher(t)
        \/ ProviderReturn(t)
        \/ Invoke(t)
        \/ FanRLock(t)
        \/ FanDeliver(t)
        \/ FanDone(t)
        \/ Relock(t)
        \/ Return(t)

SignalsSpec == SignalsInit /\ [][SignalsNext]_vars

\* ------------------------------------------- the storage behind the batches
\* The same Batcher with b.items and itemsToExport as Go slices: a slice is
\* an array, a length and a capacity; the arrays live in heap, the zero value
\* of an element is 0.
NilSlice == [arr |-> 0, len |-> 0, cap |-> 0]

\* the elements a slice shows
Elems(H, s) == [i \in 1 .. s.len |-> H[s.arr][i]]

\* make([]T, len, cap): a new zeroed array and a slice of it
make(H, len, cap) ==
    [heap |-> Append(H, [i \in 1 .. cap |-> 0]),
     slice |-> [arr |-> Len(H) + 1, len |-> len, cap |-> cap]]

\* append(s, x): in place while the capacity lasts, else into a new, larger
\* array that receives the old elements
append(H, s, x) ==
    IF s.len < s.cap
    THEN [heap |-> [H EXCEPT ![s.arr][s.len + 1] = x],
          slice |-> [s EXCEPT !.len = @ + 1]]
    ELSE LET grown == make(H, s.len + 1, IF s.cap = 0 THEN 1 ELSE 2 * s.cap)
         IN  [heap |-> [grown.heap EXCEPT ![grown.slice.arr] =
                          [i \in 1 .. grown.slice.cap |->
                              IF i <= s.len THEN H[s.arr][i]
                              ELSE IF i = s.len + 1 THEN x ELSE 0]],
              slice |-> grown.slice]

ItemsToExport_SharesStorage(H, s) == [heap |-> H, slice |-> s]

\* exportLocked, lines 84-85: itemsToExport := make([]T, len(b.items));
\* copy(itemsToExport, b.items)
ItemsToExport(H, s) ==
    LET made == make(H, s.len, s.len)
    IN  [heap |-> [made.heap EXCEPT ![made.slice.arr] = Elems(H, s)],
         slice |-> made.slice]

\* exportLocked, line 88: b.items = b.items[:0]
Truncate(s) == [s EXCEPT !.len = 0]

\* NewBatcher, lines 21-23
NewSliceBatcher(H, n) ==
    [heap |-> make(H, 0, n).heap,
     b |-> [items |-> make(H, 0, n).slice, maxSize |-> n, stopped |-> FALSE]]

\* exportLocked, lines 79-94, on the heap: what it leaves of the heap and the
\* struct, and the slice it passes to exportFunc
exportLockedSlices(H, B) ==
    IF B.items.len = 0
    THEN [heap |-> H, b |-> B, batch |-> NilSlice]
    ELSE [heap |-> ItemsToExport(H, B.items).heap,
          b |-> [B EXCEPT !.items = Truncate(@)],
          batch |-> ItemsToExport(H, B.items).slice]

\* the goroutines of this specification
SliceThreads == Producers \cup Flushers \cup Stoppers \cup Callbacks

\* exportLocked has passed a slice to exportFunc (line 95), or the method is
\* over
Handed(t, out) ==
    /\ heap' = out.heap
    /\ bat' = [bat EXCEPT ![TheBatcher] = out.b]
    /\ batch' = [batch EXCEPT ![t] = out.batch]
    /\ exported' = IF out.batch = NilSlice THEN exported
                   ELSE [exported EXCEPT ![TheBatcher] = Append(@, Elems(out.heap, out.batch))]
    /\ Goto(t, IF out.batch = NilSlice THEN "idle" ELSE "incall")

\* Add, lines 37-48, up to the call of exportFunc or the return
SliceAdd(t) ==
    /\ FirstIdle(t, Producers)
    /\ nAdds < MaxAdds
    /\ LET B == bat[TheBatcher]
           put == append(heap, B.items, nAdds + 1)
           after == [B EXCEPT !.items = put.slice]
       IN  IF B.stopped
           THEN Handed(t, [heap |-> heap, b |-> B, batch |-> NilSlice])
           ELSE IF put.slice.len >= B.maxSize
                THEN Handed(t, exportLockedSlices(put.heap, after))
                ELSE Handed(t, [heap |-> put.heap, b |-> after, batch |-> NilSlice])
    /\ nAdds' = nAdds + 1
    /\ UNCHANGED <<frame, err, hist, obs, prov, ctl, fan>>

\* Flush, lines 56-63, or the timer callback, lines 108-113, on a running
\* batcher with items pending (on any other they change nothing)
SliceFlush(t) ==
    /\ \/ FirstIdle(t, Flushers)
       \/ FirstIdle(t, Callbacks)
    /\ ~bat[TheBatcher].stopped
    /\ bat[TheBatcher].items.len > 0
    /\ Handed(t, exportLockedSlices(heap, bat[TheBatcher]))
    /\ UNCHANGED <<frame, err, nAdds, hist, obs, prov, ctl, fan>>

\* Stop, lines 68-71, on a running batcher
SliceStop(t) ==
    /\ FirstIdle(t, Stoppers)
    /\ ~bat[TheBatcher].stopped
    /\ bat' = [bat EXCEPT ![TheBatcher].stopped = TRUE]
    /\ UNCHANGED <<pc, frame, batch, err, exported, nAdds, hist, obs, prov, ctl, fan, heap>>

\* exportFunc returns and the method with it; the slice is dropped
SliceReturn(t) ==
    /\ pc[t] = "incall"
    /\ batch' = [batch EXCEPT ![t] = NilSlice]
    /\ Goto(t, "idle")
    /\ UNCHANGED <<bat, frame, err, exported, nAdds, hist, obs, prov, ctl, fan, heap>>

SliceInit ==
    /\ \E n \in 1 .. MaxBatchSize :
          /\ heap = NewSliceBatcher(<<>>, n).heap
          /\ bat = [b \in {TheBatcher} |-> NewSliceBatcher(<<>>, n).b]
    /\ pc = [t \in SliceThreads |-> "idle"]
    /\ frame = [t \in SliceThreads |-> NoFrame]
    /\ batch = [t \in SliceThreads |-> NilSlice]
    /\ err = [t \in SliceThreads |-> "nil"]
    /\ exported = [b \in {TheBatcher} |-> <<>>]
    /\ nAdds = 0
    /\ hist = NoHist
    /\ obs = NoObs
    /\ prov = NewProvider
    /\ ctl = [t \in SliceThreads |-> NoCall]
    /\ fan = [t \in SliceThreads |-> NoFan]

SliceNext ==
    \E t \in SliceThreads :
        \/ SliceAdd(t)
        \/ SliceFlush(t)
        \/ SliceStop(t)
        \/ SliceReturn(t)

SliceSpec == SliceInit /\ [][SliceNext]_vars

\* ------------------------------------------------------------- properties
RECURSIVE Flat(_)
\* the items of a sequence of batches, in order
Flat(bs) == IF bs = <<>> THEN <<>> ELSE Head(bs) \o Flat(Tail(bs))

NoDup(q) == \A i, j \in 1 .. Len(q) : q[i] = q[j] => i = j

UpTo(n) == [i \in 1 .. n |-> i]

InFlight(t) == pc[t] \in {"call", "incall", "fanout", "relock"}

\* C1: after concurrent Adds on a batcher nobody stopped, and one Flush begun
\* when every Add had returned, the batches handed to exportFunc hold exactly
\* the items added, each once (once no taken batch still waits to be handed
\* over); and at no time does an item appear twice among them.
C1_NoLossNoDuplicate ==
    \A b \in DOMAIN bat :
        /\ NoDup(Flat(exported[b]))
        /\ (/\ hist.tail = "flushed"
            /\ ~hist.stopCalled
            /\ \A t \in DOMAIN pc : pc[t] # "call")
           => ItemsOf(Flat(exported[b])) = 1 .. nAdds

C1_Witness ==
    /\ AllIdle
    /\ hist.tail = "flushed" /\ ~hist.stopCalled
    /\ nAdds = 3 /\ bat[TheBatcher].maxSize = 2
    /\ Len(exported[TheBatcher]) = 2
    /\ Flat(exported[TheBatcher]) # UpTo(3)

\* C2: N = maxSize successive Adds on a fresh batcher, nothing else running:
\* the first N-1 call nothing and leave the items pending; the N-th calls
\* exportFunc once, before it returns, with the N items in order, and leaves
\* nothing pending.
C2_SizeTriggeredFlush ==
    \A b \in DOMAIN bat :
        hist.onlyAdds =>
            /\ nAdds < bat[b].maxSize =>
                  /\ exported[b] = <<>>
                  /\ bat[b].items = UpTo(nAdds)
                  /\ \A t \in DOMAIN pc : ~InFlight(t)
            /\ nAdds = bat[b].maxSize =>
                  /\ bat[b].items = <<>>
                  /\ \A t \in DOMAIN pc : pc[t] = "call" => batch[t] = UpTo(nAdds)
                  /\ (\A t \in DOMAIN pc : pc[t] # "call") => exported[b] = <<UpTo(nAdds)>>

C2_Witness ==
    /\ hist.onlyAdds /\ AllIdle
    /\ nAdds = 2 /\ bat[TheBatcher].maxSize = 2
    /\ exported[TheBatcher] = <<(<<1, 2>>)>>

\* C3: on a running batcher, k pending items (0 < k < maxSize) with no
\* operation in progress are flushed by the next timeout: a timer is armed
\* for them.
C3_PendingItemsHaveTimer ==
    \A b \in DOMAIN bat :
        (/\ AllIdle
         /\ ~bat[b].stopped
         /\ 0 < Len(bat[b].items) /\ Len(bat[b].items) < bat[b].maxSize)
        => bat[b].timer = "armed"

\* the provider but for the state of its lock
Fields(P) == [P EXCEPT !.mu = FreeRWMutex]

\* C11: once shutdown is true it stays true; Initialize then returns the
\* error "provider is shut down", the Create methods return an error and no
\* handle, and none of these calls changes the provider or its batchers.
C11_ShutDownProviderRefuses ==
    /\ [](\A t \in DOMAIN ctl :
            (prov.shutdown /\ ctl[t].at = "returned"
                /\ ctl[t].op \in {"Initialize", "CreateLogger", "CreateTracer", "CreateMeter"})
            => ctl[t].res = "provider is shut down" /\ ~ctl[t].handle)
    /\ [][prov.shutdown =>
            /\ prov'.shutdown
            /\ (\E t \in Initializers : ctl'[t] # ctl[t]) =>
                  Fields(prov') = Fields(prov) /\ bat' = bat]_vars

C11_Witness ==
    /\ prov.shutdown
    /\ prov.logBatcher # NoBatcher
    /\ \E t \in Initializers :
          ctl[t].op = "Initialize" /\ ctl[t].at = "returned"

\* the signals whose batcher exists
Wired == {sig \in Signals : BatcherField(prov, sig) # NoBatcher}

ExporterFailed(t) == \E i \in 1 .. Len(fan[t].done) : fan[t].done[i].res = "error"

\* C13: a batcher wired to the provider's fan-out gets nil from it whatever
\* the exporters returned: Add and Flush return nil, ForceFlush never takes
\* its error return, and an Add on such a batcher is accepted (its item is
\* pending or in the batch being exported) also while exporters fail.
C13_ExporterFailureNotPropagated ==
    /\ [](\A t \in DOMAIN pc :
            /\ (pc[t] \in {"relock", "return"} /\ Self(t).exportFunc # "callback")
                  => err[t] = "nil" /\ Result(t) \in {"nil", "none"}
            /\ ctl[t].at # "flush_failed"
            /\ ctl[t].at = "returned" => ctl[t].res = "nil")
    /\ [][\A t \in DOMAIN pc :
            (ctl[t].at = "add" /\ Idle(t) /\ pc'[t] # "idle") =>
                ctl[t].arg \in ItemsOf(bat'[ctl[t].b].items) \cup ItemsOf(batch'[t])]_vars

C13_Witness ==
    \E t \in DOMAIN pc :
        /\ pc[t] = "return" /\ frame[t].op = "Add"
        /\ ExporterFailed(t)
        /\ Result(t) = "nil"
        /\ \E u \in DOMAIN pc : u # t /\ ctl[u].op = "ForceFlush" /\ ctl[u].at = "flush_done"

\* t's Initialize has run and is about to return
InitializeReturns(t) ==
    ctl[t].op = "Initialize" /\ ctl[t].at = "lock" /\ ctl'[t].at = "returned"

\* the batchers of the provider, as the struct names them
BatcherFields(P) == [sig \in Signals |-> BatcherField(P, sig)]

\* C14: an Initialize (of a provider not shut down) with a protocol other
\* than debug-stdout returns an error, and an Initialize that returns an
\* error has registered no exporter and made no batcher.
C14_BadProtocolDoesNotStart ==
    [][\A t \in DOMAIN ctl : InitializeReturns(t) =>
          /\ (~prov.shutdown /\ prov'.config.Protocol # "debug-stdout")
                => ctl'[t].res \in {"OTLP HTTP exporter not yet implemented",
                                    "unsupported protocol"}
          /\ ctl'[t].res # "nil" =>
                /\ prov'.exporters = prov.exporters
                /\ BatcherFields(prov') = BatcherFields(prov)
                /\ bat' = bat]_vars

C14_Witness ==
    \E t \in DOMAIN ctl :
        /\ ctl[t].op = "Initialize" /\ ctl[t].at = "returned"
        /\ ctl[t].res = "unsupported protocol"
        /\ prov.config.Protocol = "otlp-grpc"
        /\ prov.exporters = NoExporters /\ prov.logBatcher = NoBatcher

\* no Initialize has succeeded on the provider
Uninitialized == \A sig \in Signals : BatcherField(prov, sig) = NoBatcher

\* C15: on a provider that was never initialized, the Create methods return
\* an error and ForceFlush does not return nil.
C15_UninitializedIsMisuse ==
    \A t \in DOMAIN ctl :
        (Uninitialized /\ prov.exporters = NoExporters) =>
            /\ (ctl[t].op \in {"CreateLogger", "CreateTracer", "CreateMeter"}
                  /\ ctl[t].at = "returned") => ctl[t].res # "nil" /\ ~ctl[t].handle
            /\ ctl[t].op = "ForceFlush" => ctl[t].at # "flush_done"

InOrderAdded(q) == \A i, j \in 1 .. Len(q) : i < j => q[i] < q[j]

\* C17: the items of one batcher reach exportFunc in the order they were
\* added, inside each batch and from one invocation of exportFunc to the next.
C17_ExportedInOrderAdded ==
    \A b \in DOMAIN bat : InOrderAdded(Flat(exported[b]))

\* C18: an Emit hands its record over once: by one Add on the log batcher
\* when the provider has one, and otherwise by one direct ExportLogs call
\* with the record as a batch of one; it never ends otherwise.
C18_EmitHandsOneRecord ==
    /\ [](\A t \in DOMAIN ctl : ctl[t].op = "Emit" => ctl[t].at # "panic")
    /\ [][\A t \in DOMAIN ctl :
            (ctl[t].op = "Emit" /\ ctl[t].at = "add" /\ Idle(t)
                /\ (pc'[t] # pc[t] \/ ctl'[t] # ctl[t])) =>
                IF ctl[t].b # NoBatcher
                THEN frame'[t] = [op |-> "Add", b |-> ctl[t].b, arg |-> ctl[t].arg]
                ELSE frame'[t].op = "ExportLogs" /\ batch'[t] = <<ctl[t].arg>>]_vars

\* the timer callback of batcher b has been started and has not returned
TickRunning(b) == \E t \in DOMAIN pc : frame[t].op = "Timer" /\ frame[t].b = b

\* C21: a tick on a running batcher with nothing pending exports nothing and
\* leaves the timer armed again; so a running batcher always has its timer
\* armed or a callback of it in progress.
C21_EmptyTickRearms ==
    /\ [](\A b \in DOMAIN bat :
            ~bat[b].stopped => bat[b].timer = "armed" \/ TickRunning(b))
    /\ [][\A t \in DOMAIN pc :
            (pc[t] = "fired" /\ pc'[t] # "fired" /\ ~Self(t).stopped /\ Self(t).items = <<>>)
                => exported' = exported /\ batch'[t] = <<>>]_vars

\* goroutine t is at or inside the call of exportFunc (exportLocked, line 95)
InExport(t) == pc[t] \in {"call", "incall", "fanout", "range"}

\* C22: the goroutine that runs exportFunc does not hold the batcher's lock,
\* and an Add that begins meanwhile and does not fill the batch appends its
\* item and reaches its return, while the export stays where it was.
C22_ExportOutsideLock ==
    /\ [](\A t \in DOMAIN pc : InExport(t) => Self(t).mu # t)
    /\ [][\A t, u \in DOMAIN pc :
            (/\ InExport(u) /\ Idle(t)
             /\ frame'[t].op = "Add" /\ frame'[t].b = frame[u].b
             /\ ~Self(u).stopped /\ Len(Self(u).items) + 1 < Self(u).maxSize)
            => /\ pc'[t] = "return"
               /\ bat'[frame[u].b].items = Append(Self(u).items, frame'[t].arg)
               /\ pc'[u] = pc[u]
               /\ exported' = exported]_vars

C22_Witness ==
    \E u \in DOMAIN pc :
        /\ pc[u] = "incall"
        /\ batch[u] = <<1>>
        /\ Self(u).items = <<2>>
        /\ \A t \in DOMAIN pc \ {u} : Idle(t)

\* C23: the slice passed to exportFunc has an array of its own, apart from
\* the array of b.items and from those of the other batches in flight, and
\* while exportFunc holds it no step changes its length or its elements.
C23_BatchIsPrivateCopy ==
    /\ [](\A t \in DOMAIN pc : pc[t] = "incall" =>
            /\ batch[t].arr # bat[TheBatcher].items.arr
            /\ \A u \in DOMAIN pc \ {t} : pc[u] = "incall" => batch[u].arr # batch[t].arr)
    /\ [][\A t \in DOMAIN pc : (pc[t] = "incall" /\ pc'[t] = "incall") =>
            /\ batch'[t].len = batch[t].len
            /\ Elems(heap', batch'[t]) = Elems(heap, batch[t])]_vars

\* a batch is with exportFunc while the array of b.items, cleared since, has
\* been written again
C23_Witness ==
    \E t \in DOMAIN pc :
        /\ pc[t] = "incall"
        /\ Elems(heap, batch[t]) = <<1>>
        /\ Elems(heap, bat[TheBatcher].items) = <<2>>
        /\ heap[bat[TheBatcher].items.arr][1] = 2

\* C24: the pending items of a batcher never number more than maxSize, and
\* fewer than maxSize whenever nobody holds its lock.
C24_PendingBelowMaxSize ==
    \A b \in DOMAIN bat :
        /\ Len(bat[b].items) <= bat[b].maxSize
        /\ bat[b].mu = NoOne => Len(bat[b].items) < bat[b].maxSize

C24_Witness ==
    /\ bat[TheBatcher].maxSize = 2
    /\ bat[TheBatcher].mu = NoOne
    /\ exported[TheBatcher] = <<<<1, 2>>>>
    /\ bat[TheBatcher].items = <<3>>

\* t is inside ForceFlush, between its RLock (line 167) and the deferred
\* RUnlock
HoldsReadLock(t) == ctl[t].at \in FlushSteps

\* C25: no goroutine that holds the provider's read lock in ForceFlush waits,
\* in the fan-out its Flush set off, for a read lock that a writer waiting
\* for the readers to leave holds back: ForceFlush, the exports and a
\* writer never block each other for good.
C25_NoReadLockDeadlock ==
    \A t \in DOMAIN pc : (HoldsReadLock(t) /\ pc[t] = "fanout") => CanRLock(prov)

\* C26: at most one goroutine at a time is at or inside the call of
\* exportFunc for a batcher.
C26_ExportsDoNotOverlap ==
    \A t, u \in DOMAIN pc :
        (InExport(t) /\ InExport(u) /\ frame[t].b = frame[u].b) => t = u

\* C27: a batcher never has more than one timer armed, the armed one is the
\* one b.timer refers to, and a stopped batcher, so any batcher whose Stop
\* has returned, has none.
C27_AtMostOneArmedTimer ==
    \A b \in DOMAIN bat :
        /\ bat[b].armed <= 1
        /\ bat[b].armed = 1 <=> bat[b].timer = "armed"
        /\ (bat[b].stopped \/ hist.stopReturned) => bat[b].armed = 0

\* Stop has returned after the timer had been armed anew by an export
C27_Witness ==
    /\ AllIdle
    /\ hist.stopReturned
    /\ Len(exported[TheBatcher]) = 2
    /\ bat[TheBatcher].timer = "stopped"

\* C28: only Initialize writes the exporter registry, and only until it has
\* succeeded once: from then on no step adds, replaces or removes an entry.
C28_RegistryReadOnly ==
    [][prov'.exporters # prov.exporters =>
          /\ \E t \in Initializers : ctl[t].op = "Initialize" /\ ctl'[t].at = "returned"
          /\ prov.exporters = NoExporters]_vars

\* the batchers the provider has made so far
Constructed == {b \in DOMAIN bat : bat[b] # NilBatcher}

\* C30: every batcher the provider has made is one of its three current
\* batchers or is stopped.
C30_NoBatcherLeftRunning ==
    \A b \in Constructed :
        b \in {BatcherField(prov, sig) : sig \in Signals} \/ bat[b].stopped

\* C29: a step changes no batcher but the one the goroutine that takes it
\* works on, and an export of one signal that is under way never keeps an
\* export of another signal from taking the read lock it needs.
C29_SignalsIndependent ==
    /\ [][\A c \in DOMAIN bat : bat'[c] # bat[c] =>
            \E t \in DOMAIN pc : pc'[t] # pc[t] /\ (frame[t].b = c \/ frame'[t].b = c)]_vars
    /\ [](\A t, u \in DOMAIN pc :
            (/\ pc[t] = "fanout" /\ pc[u] = "range"
             /\ frame[t].b # NoBatcher /\ frame[u].b # NoBatcher
             /\ FanSignal(t) # FanSignal(u))
            => CanRLock(prov))

\* Shutdown has done its work: the provider is shut down, its batchers are
\* stopped, and what was pending when Shutdown got the lock has been handed
\* to the exporters
ShutdownComplete ==
    /\ prov.shutdown
    /\ \A b \in ProviderBatchers : bat[b].stopped
    /\ hist.atShutdown \subseteq UNION {ItemsOf(Flat(exported[b])) : b \in ProviderBatchers}
    /\ \A t \in DOMAIN pc : ~InFlight(t) /\ pc[t] # "range"

\* C4: a Shutdown that has the lock of an initialized provider gets to the
\* end: the three batchers flushed, then stopped, shutdown true, and every
\* item that was pending when it started handed to the exporters.
C4_ShutdownFlushesThenStops ==
    \A t \in Shutdowners :
        (ctl[t].op = "Shutdown" /\ prov.mu.held /\ prov.logBatcher # NoBatcher)
            ~> ShutdownComplete

\* Shutdown is between the return of its ForceFlush (line 206) and the Stop
\* of some batcher (lines 211-221): an Add on that batcher is still accepted
\* and nothing will flush it
LossWindow(t) ==
    /\ ctl[t].op = "Shutdown"
    /\ ctl[t].at \in StopSteps
    /\ \E b \in ProviderBatchers : ~bat[b].stopped

\* the window never opens
NoLossWindow == \A t \in DOMAIN ctl : ~LossWindow(t)

\* C19: a Shutdown of an initialized provider comes to the point between
\* ForceFlush's return and Stop taking effect on a batcher, where a
\* producer's Add is accepted and its item is then passed to no exporter.
C19_ShutdownOpensLossWindow ==
    \A t \in Shutdowners :
        (ctl[t].op = "Shutdown" /\ ctl[t].at = "rlock" /\ ~prov.shutdown
            /\ \A sig \in Signals : BatcherField(prov, sig) # NoBatcher)
            ~> LossWindow(t)

\* a goroutine waits for the read lock of the mutex it holds for writing
SelfBlocked(t) == ctl[t].at = "rlock" /\ prov.mu.held /\ prov.mu.writer = t

\* C20: Shutdown on an initialized provider that is not shut down never
\* blocks on the lock it holds itself, and it returns, with shutdown true and
\* the three batchers stopped.
C20_ShutdownReturns ==
    /\ [](\A t \in Shutdowners :
            (ctl[t].op = "Shutdown" /\ prov.logBatcher # NoBatcher) => ~SelfBlocked(t))
    /\ \A t \in Shutdowners :
          (ctl[t].op = "Shutdown" /\ ~prov.shutdown /\ prov.logBatcher # NoBatcher)
              ~> (/\ ctl[t].op = "none"
                  /\ prov.shutdown
                  /\ \A b \in ProviderBatchers : bat[b].stopped)

\* the exporters a goroutine's range loop has called so far
Called(t) == {fan[t].done[i].exp : i \in 1 .. Len(fan[t].done)}

\* C5: while a batch is fanned out, whatever the exporters called so far
\* returned, every registered exporter has been called or is still to be
\* called, none twice, each with the whole batch as it was handed in; the
\* loop ends only when all have been called, and returns nil.
C5_ExporterIsolation ==
    /\ [](\A t \in DOMAIN pc : pc[t] = "range" =>
            /\ Called(t) \cup fan[t].todo = DOMAIN prov.exporters
            /\ Called(t) \cap fan[t].todo = {}
            /\ Cardinality(Called(t)) = Len(fan[t].done)
            /\ \A i \in 1 .. Len(fan[t].done) : fan[t].done[i].arg = batch[t])
    /\ [][\A t \in DOMAIN pc : pc[t] = "range" =>
            /\ pc'[t] = "range" => batch'[t] = batch[t]
            /\ pc'[t] # "range" => Called(t) = DOMAIN prov.exporters /\ err'[t] = "nil"]_vars

C5_Witness ==
    \E t \in DOMAIN pc :
        /\ pc[t] = "range" /\ fan[t].todo = {}
        /\ Len(batch[t]) = 2
        /\ Len(fan[t].done) = 3
        /\ fan[t].done[1].res = "error"
        /\ fan[t].done[2].res = "nil" /\ fan[t].done[2].arg = batch[t]

\* C6: once a Stop call has returned, exportFunc is not called any more.
C6_NoExportAfterStopReturned ==
    [][hist.stopReturned => exported' = exported]_vars

\* C7: an Add that finds the batcher stopped returns nil, leaves the pending
\* items as they are and calls nothing; its item is never pending, never in
\* a batch, never exported.
C7_AddOnStoppedIsDropped ==
    /\ [](\A x \in hist.dropped :
            /\ \A b \in DOMAIN bat :
                  x \notin ItemsOf(bat[b].items) \cup ItemsOf(Flat(exported[b]))
            /\ \A t \in DOMAIN pc :
                  /\ x \notin ItemsOf(batch[t])
                  /\ (frame[t].op = "Add" /\ frame[t].arg = x)
                        => pc[t] = "return" /\ Result(t) = "nil")
    /\ [][hist.dropped' # hist.dropped =>
            /\ exported' = exported
            /\ \A b \in DOMAIN bat : bat'[b].items = bat[b].items]_vars

C7_Witness ==
    /\ AllIdle
    /\ hist.dropped # {}
    /\ Len(exported[TheBatcher]) > 0

\* C8: Stop calls nothing itself, and what is pending when Stop takes effect
\* stays pending for ever: no later Add, Flush or timer callback hands it to
\* exportFunc.
C8_StopLosesPending ==
    /\ \A t \in DOMAIN pc : frame[t].op = "Stop" => pc[t] = "return"
    /\ \A b \in DOMAIN bat :
          /\ hist.lost \cap ItemsOf(Flat(exported[b])) = {}
          /\ bat[b].stopped => ItemsOf(bat[b].items) = hist.lost
    /\ \A t \in DOMAIN pc : hist.lost \cap ItemsOf(batch[t]) = {}

C8_Witness ==
    /\ bat[TheBatcher].stopped /\ hist.stopReturned
    /\ hist.lost # {}
    /\ \E t \in Flushers :
          pc[t] = "return" /\ obs.sawStopped /\ obs.saw # <<>>

ShouldExport == ~obs.sawStopped /\ obs.saw # <<>>

\* C9: Flush calls exportFunc exactly when it finds the batcher running with
\* items pending: then once, before it returns, with all of them in order
\* (full batch or not), leaving nothing pending; otherwise it returns nil,
\* calls nothing and changes nothing.
C9_FlushExportsAllPending ==
    /\ [](\A t \in Flushers : frame[t].op = "Flush" =>
            /\ pc[t] = "return" =>
                  IF ShouldExport
                  THEN obs.called = <<obs.saw>>
                  ELSE obs.called = <<>> /\ Result(t) = "nil"
            /\ InFlight(t) => ShouldExport /\ batch[t] = obs.saw
            /\ pc[t] \in {"incall", "relock"} => obs.called = <<obs.saw>>)
    /\ [][\A t \in Flushers : Idle(t) /\ ~Idle(t)' =>
            IF ShouldExport'
            THEN bat'[frame'[t].b].items = <<>>
            ELSE /\ [bat'[frame'[t].b] EXCEPT !.mu = NoOne] = bat[frame'[t].b]
                 /\ exported' = exported]_vars

C9_Witness ==
    \E t \in Flushers :
        /\ pc[t] = "return"
        /\ obs.called = <<obs.saw>>
        /\ Len(obs.saw) = 1 /\ Self(t).maxSize = 2

\* C10: when exportFunc returns an error the batch is gone all the same: its
\* items are not pending again and are never handed over again, the Add or
\* Flush that made the call returns the error, and the batcher is left as it
\* was, accepting and exporting what comes later.
C10_ExportErrorNotRolledBack ==
    /\ [](/\ \A b \in DOMAIN bat :
                /\ NoDup(Flat(exported[b]))
                /\ hist.failed \cap ItemsOf(bat[b].items) = {}
          /\ \A t \in DOMAIN pc :
                (pc[t] \in {"relock", "return"} /\ frame[t].op \in {"Add", "Flush"}
                    /\ ItemsOf(batch[t]) # {} /\ ItemsOf(batch[t]) \subseteq hist.failed)
                => Result(t) = "error")
    /\ [][hist.failed' # hist.failed => bat' = bat]_vars

C10_Witness ==
    /\ hist.failed # {}
    /\ ~bat[TheBatcher].stopped
    /\ \E t \in Producers :
          /\ pc[t] = "return" /\ Result(t) = "nil"
          /\ batch[t] # <<>>
          /\ \E x \in hist.failed : \A y \in ItemsOf(batch[t]) : y > x
    /\ \E t \in Flushers : pc[t] = "relock" /\ Result(t) = "error"

====
